---------------------------- MODULE Spec2Model ----------------------------
(***************************************************************************)
(* A model of src/enigma.py: Rotor, Reflector and Machine.                 *)
(*                                                                         *)
(* Characters are Unicode code points (integers); a Python str is a        *)
(* sequence of code points.  A dict is a function whose DOMAIN is its key  *)
(* set.  Contact indices are 0-based as in the source, so position i of a  *)
(* str s is s[i + 1].                                                      *)
(***************************************************************************)
EXTENDS Integers, Sequences, FiniteSets, TLC

VARIABLES
    rotors,       \* Machine.rotors: sequence of Rotor objects (records); in SpecRotor
                  \* the one Rotor under test
    reflector,    \* Machine.reflector / the Reflector under construction
    mapArg,       \* the mappings string the Reflector (SpecRotor: the Rotor) was
                  \* constructed from
    rstatus,      \* outcome of the constructor: "new", "ok" or the exception raised
    rpair,        \* the pair named by the ValueError of Reflector.__init__
    constructed,  \* history: the rotors as they were right after construction
    op,           \* history: the last operation called
    arg,          \* history: its argument (a str; <<n>> for an integer n)
    ret,          \* history: its return value (a str; <<>> when it raised)
    err,          \* history: the exception it raised, "none" when it returned
    typed,        \* history: characters run through the cipher path since construction/reset
    onlyA,        \* history: every character passed since construction/reset was 'A'
    twice,        \* history: the last two calls were both reset()
    rt            \* history: <<T>> after encipher(T) on a machine that has ciphered nothing
                  \*          since construction/reset, <<T, C>> after decipher(C) of the
                  \*          text C that call returned, <<>> after any other call

vars == <<rotors, reflector, mapArg, rstatus, rpair, constructed, op, arg, ret,
          err, typed, onlyA, twice, rt>>

-----------------------------------------------------------------------------
(* Bounds of the model *)

MaxRotors == 2      \* Spec: machines of 0..MaxRotors rotors
MaxKeyRotors == 3   \* SpecKeys: machines of 0..MaxKeyRotors rotors
MaxLen == 2         \* texts of 0..MaxLen characters
MaxTyped == 3       \* Spec: ciphered characters between two resets
MaxKeys == 26       \* SpecKeys: ciphered characters between two resets
MaxSub == 2         \* SpecReflector: symbols substituted into a reflector string

-----------------------------------------------------------------------------
(* Python built-ins used by the source *)

Min(a, b) == IF a < b THEN a ELSE b
Max(a, b) == IF a > b THEN a ELSE b

\* s[k:] for a str s
SliceFrom(s, k) ==
    LET start == IF k < 0 THEN Max(Len(s) + k, 0) ELSE Min(k, Len(s))
    IN  SubSeq(s, start + 1, Len(s))

\* s[:k] for a str s
SliceTo(s, k) ==
    LET stop == IF k < 0 THEN Max(Len(s) + k, 0) ELSE Min(k, Len(s))
    IN  SubSeq(s, 1, stop)

\* the results that stand for an exception where the source returns an index
ValueErrorIndex == -2
KeyErrorIndex == -1

\* s.index(x): the first 0-based position at which x occurs in s as a substring;
\* ValueError when there is none
StrIndex(s, x) ==
    LET found == {i \in 0..(Len(s) - Len(x)) : \A k \in 1..Len(x) : s[i + k] = x[k]}
    IN  IF found = {} THEN ValueErrorIndex
        ELSE CHOOSE i \in found : \A j \in found : i <= j

\* x in s, for strs
StrIn(x, s) == StrIndex(s, x) >= 0

\* dict(zip(ks, vs)): zip stops at the shorter, a repeated key keeps its last value
ZipDict(ks, vs) ==
    LET n == Min(Len(ks), Len(vs))
        last(k) == CHOOSE i \in 1..n : ks[i] = k /\ \A j \in 1..n : ks[j] = k => j <= i
    IN  [k \in {ks[i] : i \in 1..n} |-> vs[last(k)]]

\* x.upper() for the characters the model passes in:
\*   'a'..'z' -> 'A'..'Z', U+00E9 -> U+00C9, U+00DF -> "SS", U+FB06 -> "ST"
Upper(c) ==
    IF c \in 97..122 THEN <<c - 32>>
    ELSE IF c = 233 THEN <<201>>
    ELSE IF c = 223 THEN <<83, 83>>
    ELSE IF c = 64262 THEN <<83, 84>>
    ELSE <<c>>

\* string.ascii_uppercase
ALPHABET == [i \in 1..26 |-> 64 + i]

-----------------------------------------------------------------------------
(* class Rotor *)

\* d[k] is defined (no KeyError): Rotor.encipher, Rotor.decipher, Reflector lookups
HasKey(d, k) == k \in DOMAIN d

\* Rotor.rotate adding offset to rotations instead of overwriting it
RotorRotateAccumulate(rotor, offset) ==
    [rotor EXCEPT !.alphabet = SliceFrom(rotor.alphabet, offset) \o SliceTo(rotor.alphabet, offset),
                  !.rotations = rotor.rotations + offset]

\* Rotor.rotate recording offset in initial_offset as well
RotorRotateSetsInitial(rotor, offset) ==
    [rotor EXCEPT !.alphabet = SliceFrom(rotor.alphabet, offset) \o SliceTo(rotor.alphabet, offset),
                  !.rotations = offset, !.initial_offset = offset]

\* Rotor.rotate
RotorRotate(rotor, offset) ==
    [rotor EXCEPT !.alphabet = SliceFrom(rotor.alphabet, offset) \o SliceTo(rotor.alphabet, offset),
                  !.rotations = offset]

\* Rotor.reset without the rotate(initial_offset) call
RotorResetNoRotate(rotor) == [rotor EXCEPT !.alphabet = ALPHABET, !.rotations = 1]

\* Rotor.reset
RotorReset(rotor) ==
    [RotorRotate([rotor EXCEPT !.alphabet = ALPHABET], rotor.initial_offset)
        EXCEPT !.rotations = 1]

\* Rotor.__init__ building reverse_mappings against the unrotated ALPHABET
RotorInitReverseUnrotated(mappings, offset) ==
    LET r0 == RotorReset([initial_offset |-> offset, alphabet |-> <<>>, rotations |-> 0,
                          forward_mappings |-> <<>>, reverse_mappings |-> <<>>])
    IN  [r0 EXCEPT !.forward_mappings = ZipDict(r0.alphabet, mappings),
                   !.reverse_mappings = ZipDict(mappings, ALPHABET)]

\* Rotor.__init__
RotorInit(mappings, offset) ==
    LET r0 == RotorReset([initial_offset |-> offset, alphabet |-> <<>>, rotations |-> 0,
                          forward_mappings |-> <<>>, reverse_mappings |-> <<>>])
    IN  [r0 EXCEPT !.forward_mappings = ZipDict(r0.alphabet, mappings),
                   !.reverse_mappings = ZipDict(mappings, r0.alphabet)]

\* Rotor.encipher (right) and Rotor.decipher (not right)
RotorLookup(rotor, character, right) ==
    LET d == IF right THEN rotor.forward_mappings ELSE rotor.reverse_mappings
    IN  IF HasKey(d, character) THEN [value |-> <<d[character]>>, err |-> "none"]
        ELSE [value |-> <<>>, err |-> "KeyError"]

\* Rotor.translate looking up forward_mappings in both directions
RotorTranslateForwardOnly(rotor, contact_index, right) ==
    LET x == rotor.alphabet[contact_index + 1]
    IN  IF ~(x \in DOMAIN rotor.forward_mappings) THEN KeyErrorIndex
        ELSE StrIndex(rotor.alphabet, <<rotor.forward_mappings[x]>>)

\* Rotor.translate; a negative result stands for the exception raised
RotorTranslate(rotor, contact_index, right) ==
    LET x == rotor.alphabet[contact_index + 1]
        d == IF right THEN rotor.forward_mappings ELSE rotor.reverse_mappings
    IN  IF ~HasKey(d, x) THEN KeyErrorIndex
        ELSE StrIndex(rotor.alphabet, <<d[x]>>)

-----------------------------------------------------------------------------
(* class Reflector *)

\* the validation loop comparing x with its own image instead of the image of y
RECURSIVE ReflectorValidateSelf(_, _, _)
ReflectorValidateSelf(m, keys, i) ==
    IF i > Len(keys) THEN [status |-> "ok", pair |-> <<>>]
    ELSE LET x == keys[i]
             y == m[x]
         IN  IF ~HasKey(m, y) THEN [status |-> "KeyError", pair |-> <<>>]
             ELSE IF x # m[x] THEN [status |-> "ValueError", pair |-> <<x, y>>]
             ELSE ReflectorValidateSelf(m, keys, i + 1)

\* the validation loop of Reflector.__init__ from the i-th key on:
\* the first key that fails decides the exception
RECURSIVE ReflectorValidate(_, _, _)
ReflectorValidate(m, keys, i) ==
    IF i > Len(keys) THEN [status |-> "ok", pair |-> <<>>]
    ELSE LET x == keys[i]
             y == m[x]
         IN  IF ~HasKey(m, y) THEN [status |-> "KeyError", pair |-> <<>>]
             ELSE IF x # m[y] THEN [status |-> "ValueError", pair |-> <<x, y>>]
             ELSE ReflectorValidate(m, keys, i + 1)

\* Reflector.__init__
ReflectorInit(mappings) ==
    LET m == ZipDict(ALPHABET, mappings)
        keys == SliceTo(ALPHABET, Min(Len(ALPHABET), Len(mappings)))
        v == ReflectorValidate(m, keys, 1)
    IN  [mappings |-> m, status |-> v.status, pair |-> v.pair]


\* Reflector.__getitem__: the dict lookup is defined on the keys only
ReflectorGetItem(m, character) ==
    IF HasKey(m, character) THEN [value |-> <<m[character]>>, err |-> "none"]
    ELSE [value |-> <<>>, err |-> "KeyError"]

-----------------------------------------------------------------------------
(* class Machine *)

\* Machine.reset calling rotate(initial_offset) on each rotor instead of reset()
MachineResetByRotate(rs) == [i \in 1..Len(rs) |-> RotorRotate(rs[i], rs[i].initial_offset)]

\* Machine.reset
MachineReset(rs) == [i \in 1..Len(rs) |-> RotorReset(rs[i])]

\* encipher_character, first loop: the contact through rotors i.. left to right
RECURSIVE TranslateRight(_, _, _)
TranslateRight(rs, i, contact_index) ==
    IF contact_index < 0 \/ i > Len(rs) THEN contact_index
    ELSE TranslateRight(rs, i + 1, RotorTranslate(rs[i], contact_index, TRUE))

\* encipher_character, second loop: the contact through rotors i..1 right to left
RECURSIVE TranslateLeft(_, _, _)
TranslateLeft(rs, i, contact_index) ==
    IF contact_index < 0 \/ i < 1 THEN contact_index
    ELSE TranslateLeft(rs, i - 1, RotorTranslate(rs[i], contact_index, FALSE))

\* encipher_character, the signal path of one letter at the current rotor position:
\* 0-based contact in, 0-based contact out (negative: the exception raised)
SignalPath(rs, refl, contact_index) ==
    LET c1 == TranslateRight(rs, 1, contact_index)
    IN  IF c1 < 0 THEN c1
        ELSE IF ~HasKey(refl, ALPHABET[c1 + 1]) THEN KeyErrorIndex
        ELSE LET c2 == StrIndex(ALPHABET, <<refl[ALPHABET[c1 + 1]]>>)
             IN  IF c2 < 0 THEN c2 ELSE TranslateLeft(rs, Len(rs), c2)

\* encipher_character, the turnover loop: for index in range(index, len(rotors));
\* rotors[index] of the source is rs[index + 1]
RECURSIVE Turnover(_, _)
Turnover(rs, index) ==
    IF index > Len(rs) - 1 THEN rs
    ELSE LET turn_frequency == Len(ALPHABET) * index
         IN  Turnover(IF rs[index].rotations % turn_frequency = 0
                         THEN [rs EXCEPT ![index + 1] = RotorRotate(rs[index + 1], 1)]
                         ELSE rs,
                      index + 1)

\* stepping that rotates the last rotor, rotors[-1], instead of rotors[0]
SteppingLastRotor(rs) == Turnover([rs EXCEPT ![Len(rs)] = RotorRotate(rs[Len(rs)], 1)], 1)

\* encipher_character, stepping: rotors[0].rotate() and the turnover loop
Stepping(rs) == Turnover([rs EXCEPT ![1] = RotorRotate(rs[1], 1)], 1)

\* the exception a negative index stands for
ErrorName(index) == IF index = KeyErrorIndex THEN "KeyError" ELSE "ValueError"

\* Machine.encipher_character: the rotors after the call, the str returned,
\* the exception raised and whether the rotors were stepped
EncipherCharacter(rs, refl, c) ==
    LET x == Upper(c)
    IN  IF ~StrIn(x, ALPHABET)
        THEN [rotors |-> rs, out |-> x, err |-> "none", steps |-> 0]
        ELSE LET contact_index == SignalPath(rs, refl, StrIndex(ALPHABET, x))
             IN  IF contact_index < 0
                 THEN [rotors |-> rs, out |-> <<>>, err |-> ErrorName(contact_index), steps |-> 0]
                 ELSE IF Len(rs) = 0
                 THEN [rotors |-> rs, out |-> <<>>, err |-> "IndexError", steps |-> 0]
                 ELSE [rotors |-> Stepping(rs), out |-> <<ALPHABET[contact_index + 1]>>,
                       err |-> "none", steps |-> 1]

\* Machine.encipher: ''.join(encipher_character(x) for x in text), characters i.. of
\* text with the output so far in acc; an exception ends the call with the rotors
\* as the earlier characters left them
RECURSIVE EncipherFrom(_, _, _, _, _, _)
EncipherFrom(rs, refl, text, i, acc, n) ==
    IF i > Len(text) THEN [rotors |-> rs, out |-> acc, err |-> "none", steps |-> n]
    ELSE LET r == EncipherCharacter(rs, refl, text[i])
         IN  IF r.err # "none"
             THEN [rotors |-> r.rotors, out |-> <<>>, err |-> r.err, steps |-> n]
             ELSE EncipherFrom(r.rotors, refl, text, i + 1, acc \o r.out, n + r.steps)

MachineEncipher(rs, refl, text) == EncipherFrom(rs, refl, text, 1, <<>>, 0)

\* Machine.decipher without the reset() call
MachineDecipherNoReset(rs, refl, text) == MachineEncipher(rs, refl, text)

\* Machine.decipher
MachineDecipher(rs, refl, text) == MachineEncipher(MachineReset(rs), refl, text)

-----------------------------------------------------------------------------
(* The inputs the model draws from *)

\* rotor wirings "EKMFLGDQVZNTOWYHXUSPAIBRCJ" and "AJDKSIRUXBLHWTMCQGZNPYFVOE"
WiringI == <<69, 75, 77, 70, 76, 71, 68, 81, 86, 90, 78, 84, 79, 87, 89, 72, 88, 85, 83, 80, 65, 73, 66, 82, 67, 74>>
WiringII == <<65, 74, 68, 75, 83, 73, 82, 85, 88, 66, 76, 72, 87, 84, 77, 67, 81, 71, 90, 78, 80, 89, 70, 86, 79, 69>>

\* reflector strings "YRUHQSLDPXNGOKMIEBFZCWVJAT" and "BADCFEHGJILKNMPORQTSVUXWZY"
ReflectorB == <<89, 82, 85, 72, 81, 83, 76, 68, 80, 88, 78, 71, 79, 75, 77, 73, 69, 66, 70, 90, 67, 87, 86, 74, 65, 84>>
ReflectorPairs == <<66, 65, 68, 67, 70, 69, 72, 71, 74, 73, 76, 75, 78, 77, 80, 79, 82, 81, 84, 83, 86, 85, 88, 87, 90, 89>>

\* the (wiring, offset) arguments of the Rotor constructor
RotorArgs == {<<WiringI, 0>>, <<WiringII, 7>>}

\* the characters passed to encipher_character: 'A', 'b', '1', U+00E9, U+00DF, U+FB06
Chars == {65, 98, 49, 233, 223, 64262}

\* the characters of the texts passed to encipher and decipher: 'b' and 'Z'
TextChars == {98, 90}

Texts == UNION {[1..n -> TextChars] : n \in 0..MaxLen}

\* the strings passed to the Reflector constructor: the two involutions, each with
\* one position overwritten, and every prefix of the second
ReflectorInputs ==
    {[base EXCEPT ![i] = 64 + j] : base \in {ReflectorB, ReflectorPairs},
                                    i \in 1..Len(ALPHABET), j \in 1..MaxSub}
    \cup {ReflectorB, ReflectorPairs}
    \cup {SliceTo(ReflectorPairs, n) : n \in 0..Len(ALPHABET)}

-----------------------------------------------------------------------------
(* The machine: Spec *)

NoCall == /\ op = "init" /\ arg = <<>> /\ ret = <<>> /\ err = "none"
          /\ typed = 0 /\ onlyA = TRUE /\ twice = FALSE /\ rt = <<>>

\* the state after Machine(rotors, reflector), the rotors (at most max of them) and
\* the reflector built by their constructors
MachineInit(max) ==
    /\ \E n \in 0..max : \E a \in [1..n -> RotorArgs] :
          rotors = [i \in 1..n |-> RotorInit(a[i][1], a[i][2])]
    /\ mapArg = ReflectorB
    /\ reflector = ReflectorInit(mapArg).mappings
    /\ rstatus = ReflectorInit(mapArg).status
    /\ rpair = ReflectorInit(mapArg).pair
    /\ constructed = rotors
    /\ NoCall

Init == MachineInit(MaxRotors)

Fixed == UNCHANGED <<reflector, mapArg, rstatus, rpair, constructed>>

\* a call of machine.encipher_character(c); the caller ciphers at most limit
\* characters between two resets
CallEncipherCharacter(c, limit) ==
    \E r \in {EncipherCharacter(rotors, reflector, c)} :
        /\ typed + r.steps <= limit
        /\ rotors' = r.rotors
        /\ op' = "encipher_character" /\ arg' = <<c>> /\ ret' = r.out /\ err' = r.err
        /\ typed' = typed + r.steps
        /\ onlyA' = (onlyA /\ c = 65)
        /\ rt' = <<>> /\ twice' = FALSE
        /\ Fixed

\* a call of machine.encipher(text)
Encipher(text, limit) ==
    \E r \in {MachineEncipher(rotors, reflector, text)} :
        /\ typed + r.steps <= limit
        /\ rotors' = r.rotors
        /\ op' = "encipher" /\ arg' = text /\ ret' = r.out /\ err' = r.err
        /\ typed' = typed + r.steps
        /\ onlyA' = (onlyA /\ \A i \in 1..Len(text) : text[i] = 65)
        /\ rt' = IF typed = 0 THEN <<text>> ELSE <<>>
        /\ twice' = FALSE
        /\ Fixed

\* a call of machine.decipher(text)
Decipher(text) ==
    \E r \in {MachineDecipher(rotors, reflector, text)} :
        /\ rotors' = r.rotors
        /\ op' = "decipher" /\ arg' = text /\ ret' = r.out /\ err' = r.err
        /\ typed' = r.steps
        /\ onlyA' = (\A i \in 1..Len(text) : text[i] = 65)
        /\ rt' = IF Len(rt) = 1 /\ err = "none" /\ text = ret THEN <<rt[1], text>> ELSE <<>>
        /\ twice' = FALSE
        /\ Fixed

\* a call of machine.reset()
Reset ==
    /\ rotors' = MachineReset(rotors)
    /\ op' = "reset" /\ arg' = <<>> /\ ret' = <<>> /\ err' = "none"
    /\ typed' = 0 /\ onlyA' = TRUE /\ rt' = <<>>
    /\ twice' = (op = "reset")
    /\ Fixed

\* the caller: any character, any text, or the text the last call returned
Next ==
    \/ \E c \in Chars : CallEncipherCharacter(c, MaxTyped)
    \/ \E text \in Texts : Encipher(text, MaxTyped)
    \/ \E text \in Texts \cup {ret} : Decipher(text)
    \/ Reset

Spec == Init /\ [][Next]_vars

\* the caller who types one character at a time, for a full revolution of rotors[0]
NextKeys ==
    \/ \E c \in Chars : CallEncipherCharacter(c, MaxKeys)
    \/ Reset

InitKeys == MachineInit(MaxKeyRotors)

SpecKeys == InitKeys /\ [][NextKeys]_vars

-----------------------------------------------------------------------------
(* The Reflector constructor: SpecReflector *)

\* before Reflector(mapArg) is called; there is no machine
InitReflector ==
    /\ mapArg \in ReflectorInputs
    /\ rstatus = "new" /\ rpair = <<>> /\ reflector = <<>>
    /\ rotors = <<>> /\ constructed = <<>>
    /\ NoCall

NoMachine == UNCHANGED <<rotors, constructed, mapArg, typed, onlyA, twice, rt>>

\* the call Reflector(mapArg): an exception leaves no object behind
ConstructReflector ==
    /\ rstatus = "new"
    /\ \E r \in {ReflectorInit(mapArg)} :
          /\ rstatus' = r.status /\ rpair' = r.pair
          /\ reflector' = IF r.status = "ok" THEN r.mappings ELSE <<>>
          /\ op' = "Reflector" /\ arg' = mapArg /\ ret' = <<>>
          /\ err' = IF r.status = "ok" THEN "none" ELSE r.status
    /\ NoMachine

\* a call reflector[character] on the constructed Reflector
Reflect(character) ==
    /\ rstatus = "ok"
    /\ \E r \in {ReflectorGetItem(reflector, character)} :
          op' = "reflect" /\ arg' = <<character>> /\ ret' = r.value /\ err' = r.err
    /\ UNCHANGED <<reflector, rstatus, rpair>>
    /\ NoMachine

NextReflector ==
    \/ ConstructReflector
    \/ \E i \in 1..Len(ALPHABET) : Reflect(ALPHABET[i])

SpecReflector == InitReflector /\ [][NextReflector]_vars

-----------------------------------------------------------------------------
(* A Rotor on its own: SpecRotor *)

\* the strings passed to the Rotor constructor: the two wirings, the first with one
\* position overwritten (a repeated and a missing symbol), and strings that are too
\* short, "AJDK" and the second wiring without its last symbol
RotorInputs ==
    {WiringI, WiringII}
    \cup {[WiringI EXCEPT ![i] = 64 + i] : i \in 1..MaxSub}
    \cup {SliceTo(WiringII, 4), SliceTo(WiringII, Len(ALPHABET) - 1)}

\* the offsets passed to the Rotor constructor
Offsets == {0, 7, 25}

\* the offsets passed to Rotor.rotate
Turns == {0, 1, 2, Len(ALPHABET), Len(ALPHABET) + 1}

\* the contact indices passed to Rotor.translate
Contacts == {0, Len(ALPHABET) - 1}

\* before Rotor(mapArg, offset) is called; there is no machine and no reflector
InitRotor ==
    /\ mapArg \in RotorInputs
    /\ rstatus = "new" /\ rpair = <<>> /\ reflector = <<>>
    /\ rotors = <<>> /\ constructed = <<>>
    /\ NoCall

NoHistory == UNCHANGED <<reflector, mapArg, rpair, typed, onlyA, twice, rt>>

\* the call Rotor(mapArg, offset); the constructor has no raise and no lookup
ConstructRotor(offset) ==
    /\ rstatus = "new"
    /\ rotors' = <<RotorInit(mapArg, offset)>>
    /\ constructed' = rotors'
    /\ rstatus' = "ok"
    /\ op' = "Rotor" /\ arg' = <<offset>> /\ ret' = <<>> /\ err' = "none"
    /\ NoHistory

\* a call rotor.rotate(offset)
CallRotate(offset) ==
    /\ rstatus = "ok"
    /\ rotors' = <<RotorRotate(rotors[1], offset)>>
    /\ op' = "rotate" /\ arg' = <<offset>> /\ ret' = <<>> /\ err' = "none"
    /\ UNCHANGED <<rstatus, constructed>>
    /\ NoHistory

\* a call rotor.reset()
CallRotorReset ==
    /\ rstatus = "ok"
    /\ rotors' = <<RotorReset(rotors[1])>>
    /\ op' = "rotor_reset" /\ arg' = <<>> /\ ret' = <<>> /\ err' = "none"
    /\ UNCHANGED <<rstatus, constructed>>
    /\ NoHistory

\* a call rotor.translate(contact_index, right)
CallTranslate(contact_index, right) ==
    /\ rstatus = "ok"
    /\ \E r \in {RotorTranslate(rotors[1], contact_index, right)} :
          /\ ret' = IF r < 0 THEN <<>> ELSE <<r>>
          /\ err' = IF r < 0 THEN ErrorName(r) ELSE "none"
    /\ op' = (IF right THEN "translate_right" ELSE "translate_left")
    /\ arg' = <<contact_index>>
    /\ UNCHANGED <<rotors, rstatus, constructed>>
    /\ NoHistory

\* a call rotor.encipher(character) (right) or rotor.decipher(character)
CallLookup(character, right) ==
    /\ rstatus = "ok"
    /\ \E r \in {RotorLookup(rotors[1], character, right)} :
          ret' = r.value /\ err' = r.err
    /\ op' = (IF right THEN "rotor_encipher" ELSE "rotor_decipher")
    /\ arg' = <<character>>
    /\ UNCHANGED <<rotors, rstatus, constructed>>
    /\ NoHistory

NextRotor ==
    \/ \E offset \in Offsets : ConstructRotor(offset)
    \/ \E offset \in Turns : CallRotate(offset)
    \/ CallRotorReset
    \/ \E i \in Contacts, right \in BOOLEAN : CallTranslate(i, right)
    \/ \E right \in BOOLEAN : CallLookup(ALPHABET[1], right)

SpecRotor == InitRotor /\ [][NextRotor]_vars

-----------------------------------------------------------------------------
(* The properties *)

\* c is one of the 52 letters 'A'..'Z', 'a'..'z'
IsLetter(c) == c \in 65..90 \/ c \in 97..122

\* T.upper() for a text T of letters
UpperText(T) == [i \in 1..Len(T) |-> IF T[i] \in 97..122 THEN T[i] - 32 ELSE T[i]]

\* the uppercase form of c is not one of the 26 alphabet symbols
OutsideAlphabet(c) == ~(Len(Upper(c)) = 1 /\ Upper(c)[1] \in 65..90)

\* s cyclically shifted by n positions: position i holds what position i + n held
CyclicShift(s, n) == [i \in 1..Len(s) |-> s[((i - 1 + n) % Len(s)) + 1]]

\* the 26-symbol string m over the alphabet maps the image of every symbol back to it
IsInvolutionString(m) == \A i \in 1..Len(m) : m[m[i] - 64] = 64 + i

\* C1: a machine of one or more rotors that has ciphered nothing since its
\* construction (or its last reset) enciphers a text T of letters, then deciphers
\* the result: what decipher returns is T uppercased.
C1_RoundTrip ==
    (Len(rt) = 2 /\ Len(rotors) >= 1 /\ \A i \in 1..Len(rt[1]) : IsLetter(rt[1][i]))
        => (op = "decipher" /\ err = "none" /\ ret = UpperText(rt[1]))

\* a round trip of a text of MaxLen letters, one of them lowercase, through two
\* or more rotors, whose cipher text differs from the uppercased plain text
C1_Witness ==
    /\ Len(rt) = 2 /\ Len(rotors) >= 2 /\ Len(rt[1]) = MaxLen
    /\ \A i \in 1..Len(rt[1]) : IsLetter(rt[1][i])
    /\ \E i \in 1..Len(rt[1]) : rt[1][i] \in 97..122
    /\ rt[2] # UpperText(rt[1])
    /\ ret = UpperText(rt[1])

\* C2: at every reachable rotor position the signal path (right through the rotors,
\* the reflector, left through the rotors) is an involution of the 26 contacts:
\* if a goes to b then b goes to a.
C2_Reciprocity ==
    \A a \in 0..(Len(ALPHABET) - 1) :
        LET b == SignalPath(rotors, reflector, a)
        IN  b \in 0..(Len(ALPHABET) - 1) /\ SignalPath(rotors, reflector, b) = a

\* three rotors, rotors[0] one step short of a full revolution, and a signal path
\* that is no longer the one of the constructed machine
C2_Witness ==
    /\ Len(rotors) = 3 /\ typed = 25
    /\ SignalPath(rotors, reflector, 0) # SignalPath(constructed, reflector, 0)

\* C3: a 3-rotor machine with all initial offsets 0 has enciphered 26 consecutive
\* 'A's since construction: rotors[1] has advanced by exactly one rotation.
C3_Carry ==
    (/\ Len(rotors) = 3 /\ \A i \in 1..3 : rotors[i].initial_offset = 0
     /\ typed = 26 /\ onlyA)
        => rotors[2].alphabet = CyclicShift(constructed[2].alphabet, 1)

\* C4, one step: encipher_character of a letter shifts the view of rotors[0] by one
C4_Step ==
    (op' = "encipher_character" /\ IsLetter(arg'[1]) /\ Len(rotors) >= 1)
        => /\ err' = "none"
           /\ rotors'[1].alphabet = CyclicShift(rotors[1].alphabet, 1)

\* C4, a revolution: after 26 letters the view of rotors[0] is the one before them
C4_Revolution ==
    (typed = Len(ALPHABET) /\ Len(rotors) >= 1) => rotors[1].alphabet = constructed[1].alphabet

\* C4: every letter passed to encipher_character advances rotors[0] by exactly one
\* position, whatever the other rotors, and 26 letters bring its view back.
C4_FastRotor == [][C4_Step]_vars /\ [](C4_Revolution)

\* 26 letters, not all of them 'A', typed into a machine of two or more rotors
C4_Witness ==
    /\ typed = Len(ALPHABET) /\ Len(rotors) >= 2 /\ ~onlyA
    /\ op = "encipher_character" /\ IsLetter(arg[1])
    /\ rotors[1].alphabet = constructed[1].alphabet

\* C5: encipher_character of a character whose uppercase form is not an alphabet
\* symbol returns the character unchanged and changes no rotor.
C5_Passthrough ==
    [][(op' = "encipher_character" /\ OutsideAlphabet(arg'[1]))
          => (err' = "none" /\ ret' = arg' /\ rotors' = rotors)]_vars

\* C6: reset() leaves every rotor as constructed: the view is the alphabet shifted
\* by initial_offset and rotations is 1.
C6_ResetRestores ==
    op = "reset" =>
        /\ rotors = constructed
        /\ \A i \in 1..Len(rotors) :
              /\ rotors[i].alphabet = CyclicShift(ALPHABET, rotors[i].initial_offset)
              /\ rotors[i].rotations = 1

\* a reset of a machine whose rotors[0] has a nonzero initial offset
C6_Witness ==
    /\ op = "reset" /\ Len(rotors) = MaxRotors
    /\ rotors[1].initial_offset # 0 /\ rotors[1].alphabet # ALPHABET

\* C7: a reset() right after a reset() changes no rotor.
C7_ResetIdempotent == [][(op = "reset" /\ op' = "reset") => rotors' = rotors]_vars

\* two resets in a row of a machine with a rotor of nonzero initial offset
C7_Witness ==
    /\ twice /\ op = "reset" /\ Len(rotors) >= 1
    /\ \E i \in 1..Len(rotors) : rotors[i].initial_offset # 0

\* C8: Reflector(m) for a 26-symbol string m over the alphabet raises ValueError
\* exactly when m is not an involution, the error names a pair (x, m(x)) with
\* m(m(x)) # x, and no later lookup raises.
C8_ReflectorFailFast ==
    (rstatus # "new" /\ Len(mapArg) = Len(ALPHABET)) =>
        /\ rstatus \in {"ok", "ValueError"}
        /\ (rstatus = "ValueError") <=> ~IsInvolutionString(mapArg)
        /\ rstatus = "ValueError" =>
              /\ Len(rpair) = 2
              /\ rpair[1] \in 65..90
              /\ rpair[2] = mapArg[rpair[1] - 64]
              /\ mapArg[rpair[2] - 64] # rpair[1]
        /\ op = "reflect" => err = "none"

\* a 26-symbol string rejected for a pair that is not the first one
C8_Witness ==
    /\ rstatus = "ValueError" /\ Len(mapArg) = Len(ALPHABET)
    /\ rpair[1] # ALPHABET[1]

\* C9: every Reflector whose construction succeeded maps each of the 26 symbols,
\* and maps its image back to it.
C9_InvolutionWholeAlphabet ==
    rstatus = "ok" =>
        \A i \in 1..Len(ALPHABET) :
            /\ HasKey(reflector, ALPHABET[i])
            /\ HasKey(reflector, reflector[ALPHABET[i]])
            /\ reflector[reflector[ALPHABET[i]]] = ALPHABET[i]

\* C10: no call of encipher_character, encipher, decipher or reset raises.
C10_NoRuntimeError == err = "none"

\* the number of characters of text whose uppercase form is an alphabet symbol
AlphabeticCount(text) == Cardinality({i \in 1..Len(text) : ~OutsideAlphabet(text[i])})

\* the texts a second copy of the machine is fed: any text, any single character
CopyTexts == Texts \cup {<<c>> : c \in Chars}

\* C11: whenever the machine enciphers a text, a copy of it started in the same
\* state and fed any text with the same number of alphabetic characters ends in
\* the same rotor state (rotated views and rotation counters of all rotors).
C11_SteppingInputIndependent ==
    [][op' \in {"encipher", "encipher_character"} =>
          \A u \in CopyTexts :
              AlphabeticCount(u) = AlphabeticCount(arg') =>
                  MachineEncipher(rotors, reflector, u).rotors = rotors']_vars

\* w is a permutation of the 26 alphabet symbols
IsPermutationString(w) ==
    /\ Len(w) = Len(ALPHABET)
    /\ {w[i] : i \in 1..Len(w)} = {ALPHABET[i] : i \in 1..Len(ALPHABET)}

\* C12: the construction of a Rotor succeeds only for a wiring string that is a
\* permutation of the 26 alphabet symbols; a repeated symbol, a missing symbol or
\* a wrong length makes the constructor fail.
C12_WiringValidated == rstatus = "ok" => IsPermutationString(mapArg)

\* C13: for a permutation wiring w and an initial offset k in 0..25, the rotor
\* Rotor(w, k) enciphers ALPHABET[i] to w[i] for every i, whatever k is, and
\* deciphers w[i] back to ALPHABET[i].
C13_ForwardMapUnrotated ==
    (/\ rstatus = "ok"
     /\ IsPermutationString(mapArg)
     /\ rotors[1].initial_offset \in 0..(Len(ALPHABET) - 1)) =>
        \A i \in 1..Len(ALPHABET) :
            /\ RotorLookup(rotors[1], ALPHABET[i], TRUE) =
                   [value |-> <<mapArg[i]>>, err |-> "none"]
            /\ RotorLookup(rotors[1], mapArg[i], FALSE) =
                   [value |-> <<ALPHABET[i]>>, err |-> "none"]

\* the contact indices of a rotor
ContactIndices == 0..(Len(ALPHABET) - 1)

\* translating contact i over the rotor in one direction and the result back in
\* the other gives i again, from both sides and without an exception
TranslateRoundTrip(rotor, i) ==
    LET f == RotorTranslate(rotor, i, TRUE)
        b == RotorTranslate(rotor, i, FALSE)
    IN  /\ f \in ContactIndices /\ RotorTranslate(rotor, f, FALSE) = i
        /\ b \in ContactIndices /\ RotorTranslate(rotor, b, TRUE) = i

\* C14: for a Rotor with a permutation wiring, in every rotation state that rotate
\* and reset reach, translate forward then reverse, and reverse then forward, give
\* back every contact index i in 0..25; translate in each direction is a bijection
\* on 0..25; and a call of translate leaves the rotor as it was.
C14_TranslateInvertible ==
    /\ [](/\ rstatus = "ok" /\ IsPermutationString(mapArg)
          => /\ \A i \in ContactIndices : TranslateRoundTrip(rotors[1], i)
             /\ \A right \in BOOLEAN :
                   {RotorTranslate(rotors[1], i, right) : i \in ContactIndices}
                       = ContactIndices)
    /\ [][op' \in {"translate_right", "translate_left"} => rotors' = rotors]_vars

\* translate has returned on a permutation rotor turned away from its initial view
C14_Witness ==
    /\ op = "translate_left" /\ err = "none" /\ Len(ret) = 1
    /\ IsPermutationString(mapArg)
    /\ rotors[1].alphabet # constructed[1].alphabet
    /\ rotors[1].initial_offset # 0

\* the rotor after n calls rotate(1)
RECURSIVE RotateTimes(_, _)
RotateTimes(rotor, n) == IF n = 0 THEN rotor ELSE RotateTimes(RotorRotate(rotor, 1), n - 1)

\* C15: rotate(n) shifts the rotated view cyclically by n positions (position i of
\* the new view holds what position (i + n) mod 26 of the old view held) and sets
\* rotations to n; n calls rotate(1) give the same view and leave rotations at 1.
C15_RotateShifts ==
    [][op' = "rotate" =>
          LET n == arg'[1]
          IN  /\ rotors'[1].alphabet = CyclicShift(rotors[1].alphabet, n)
              /\ rotors'[1].rotations = n
              /\ n >= 1 =>
                    /\ RotateTimes(rotors[1], n).alphabet = rotors'[1].alphabet
                    /\ RotateTimes(rotors[1], n).rotations = 1]_vars

\* C16: after any sequence of encipher_character, encipher, decipher and reset
\* calls the machine has the rotors it was constructed with, in the same order, each
\* with its forward map, reverse map and initial_offset as constructed, and the
\* reflector mapping is the one built from the reflector string; only the rotated
\* views and rotation counters may differ.
C16_Frame ==
    /\ Len(rotors) = Len(constructed)
    /\ \A i \in 1..Len(rotors) :
          /\ rotors[i].forward_mappings = constructed[i].forward_mappings
          /\ rotors[i].reverse_mappings = constructed[i].reverse_mappings
          /\ rotors[i].initial_offset = constructed[i].initial_offset
    /\ reflector = ReflectorInit(mapArg).mappings

\* a two-rotor machine that deciphered a text and is turned away from its
\* constructed state
C16_Witness ==
    /\ op = "decipher" /\ err = "none" /\ typed >= 1
    /\ Len(rotors) = 2
    /\ rotors # constructed

\* C17: in every state observable between Machine operations every rotor's
\* rotations counter is 1, so the turnover condition holds for no rotor, and every
\* rotor after the first has the rotated view it was constructed with: only
\* rotors[0] ever moves.
C17_OnlyFirstRotorMoves ==
    /\ \A i \in 1..Len(rotors) : rotors[i].rotations = 1
    /\ \A index \in 1..(Len(rotors) - 1) :
          /\ rotors[index].rotations % (Len(ALPHABET) * index) # 0
          /\ rotors[index + 1].alphabet = constructed[index + 1].alphabet

\* a three-rotor machine whose first rotor has made a full revolution
C17_Witness ==
    /\ Len(rotors) = 3
    /\ typed = Len(ALPHABET)
    /\ op = "encipher_character" /\ err = "none"

\* C18: from any reachable state, encipher(T1) followed by encipher(T2) returns
\* outputs whose concatenation is the output of one encipher(T1 + T2) from the same
\* state, and both runs end in the same rotor state; the output is as long as the
\* input, and every alphabetic input character yields an uppercase alphabet letter.
C18_EncipherCompositional ==
    [][op' = "encipher" =>
          \A T2 \in CopyTexts :
              LET T1 == arg'
                  second == MachineEncipher(rotors', reflector, T2)
                  whole == MachineEncipher(rotors, reflector, T1 \o T2)
              IN  (err' = "none" /\ second.err = "none") =>
                      /\ whole.err = "none"
                      /\ whole.out = ret' \o second.out
                      /\ whole.rotors = second.rotors
                      /\ Len(whole.out) = Len(T1 \o T2)
                      /\ \A i \in 1..Len(T1 \o T2) :
                            ~OutsideAlphabet((T1 \o T2)[i]) => whole.out[i] \in 65..90]_vars

=============================================================================
